---- MODULE Spec2Model ----
(***************************************************************************)
(* Model of Backend/chatBot.py: the per-URL session map (session_data),    *)
(* the /query handler (chat_service) and the /reset handler                *)
(* (reset_session).                                                        *)
(*                                                                         *)
(* Python lists are objects: session_data[url]["chat_history"] and the     *)
(* handler's local chat_history name the same list until one of them is    *)
(* rebound.  The model keeps the lists in a heap (heap, indexed by ListId) *)
(* and stores list ids in the session record and in the handler's local.   *)
(*                                                                         *)
(* Each handler is a coroutine (async def) whose body holds no await: the  *)
(* event loop started by uvicorn.run runs it from its first line to its    *)
(* return (or to the exception that leaves it) before any other handler    *)
(* runs.  The handler is modelled in steps, one per call to an external    *)
(* collaborator, and CanRun states that scheduling.                        *)
(***************************************************************************)
EXTENDS Naturals, Sequences, FiniteSets

VARIABLES
    session_data,   \* chatBot.py:32  URL -> [vectorstore, chat_history, page_title]
    heap,           \* the list objects: ListId -> sequence of messages
    pc,             \* position of each handler invocation
    req,            \* request body and local variables of each handler invocation
    served,         \* per URL, the number of requests that acted on its session
    nbuilt,         \* per URL, the number of vector indexes built for it
    failedIngest,   \* the URLs without a session whose last ingestion attempt failed
    nfail,          \* per URL, the number of queries that raised in retrieval or generation
    lastSys,        \* per URL, the System message written last (by creation or reset)
    resetRun        \* the /reset requests handled last, in a row, for one URL

vars == <<session_data, heap, pc, req, served, nbuilt, failedIngest, nfail, lastSys, resetRun>>

-----------------------------------------------------------------------------
(* Bounds of the model *)

URL == {"u1", "u2"}

\* handler invocations that can exist at one time
MaxInFlight == 2
Req == 1..MaxInFlight

\* requests that act on the session of u1 and on the session of u2
MaxRequestsA == 12
MaxRequestsB == 1
\* queries, over all URLs, whose retrieval or generation raises
MaxFailures == 1

MaxRequests(u) == IF u = "u1" THEN MaxRequestsA ELSE MaxRequestsB

-----------------------------------------------------------------------------
(* Program constants *)

HistoryCap == 20
KeepLast == 19
DefaultTitle == "Unknown Page"
StartedPrefix == "Started new conversation about: "
RestartedPrefix == "Chat history cleared. Restarted conversation about: "
NoHistoryText == "No previous conversation history."
ErrLoad == "Failed to load content from the provided URL"
ErrNoContent == "The webpage appears to have no readable content. This may be due to authentication requirements or dynamic content loading."
\* a faulty variant: the message of the empty-text test is used for the empty split
ErrNoChunks_Copied == "The webpage appears to have no readable content. This may be due to authentication requirements or dynamic content loading."
ErrNoChunks == "Unable to process the webpage content into readable chunks."

-----------------------------------------------------------------------------
(* Values *)

SystemMessage(c) == [role |-> "System", content |-> c]
HumanMessage(c) == [role |-> "Human", content |-> c]
AIMessage(c) == [role |-> "AI", content |-> c]

\* an f-string "<prefix>{title}" is the pair of its two parts
StartedMsg(title) == SystemMessage(<<StartedPrefix, title>>)
RestartedMsg(title) == SystemMessage(<<RestartedPrefix, title>>)

\* the query text of the n-th request for a URL, and the text the model answers it with
QueryText(n) == <<"q", n>>
AnswerText(n) == <<"a", n>>
NoText == <<>>

NoStore == [url |-> "none", index |-> 0]
NoResponse == [none |-> TRUE]
NoMessage == [role |-> "none", content |-> <<>>]
NoRun == [url |-> "none", n |-> 0, status |-> "none"]

\* what loader.load() can return: documents, each a page_content (characters)
\* and a metadata dict that may or may not hold "title"
TitleOf(u) == IF u = "u1" THEN "Title A" ELSE "Title B"
Blank == {<<>>, <<" ">>}
Text == {<<"x", " ">>}
Doc(c, m) == [page_content |-> c, metadata |-> m]
Untitled(u) == [source |-> u]
Titled(u) == [source |-> u, title |-> TitleOf(u)]
DocLists(u) ==
    {<<>>}
    \cup {<<Doc(c, m)>> : c \in Blank \cup Text, m \in {Untitled(u), Titled(u)}}
    \cup {<<Doc(<<" ">>, Untitled(u)), Doc(c, Titled(u))>> : c \in Blank \cup Text}

ListId == 1..(Cardinality(URL) + MaxInFlight)
NoList == 0

Locals ==
    [kind |-> "none", url |-> "none", query |-> NoText, docs |-> <<>>, splits |-> 0,
     vectorstore |-> NoStore, chat_history |-> NoList, formatted_history |-> <<>>,
     ai_response |-> NoText, response |-> NoResponse, cause |-> "none"]

-----------------------------------------------------------------------------
(* Pure helpers *)

IsSpace(ch) == ch = " "

RECURSIVE LStrip(_)
LStrip(s) == IF s # <<>> /\ IsSpace(Head(s)) THEN LStrip(Tail(s)) ELSE s

RECURSIVE RStrip(_)
RStrip(s) ==
    IF s # <<>> /\ IsSpace(s[Len(s)]) THEN RStrip(SubSeq(s, 1, Len(s) - 1)) ELSE s

\* str.strip()
Strip(s) == RStrip(LStrip(s))

\* "".join([doc.page_content for doc in docs])
RECURSIVE JoinContent(_)
JoinContent(docs) ==
    IF docs = <<>> THEN <<>> ELSE Head(docs).page_content \o JoinContent(Tail(docs))

\* dict.get(key, default)
Get(d, key, default) == IF key \in DOMAIN d THEN d[key] ELSE default

\* a faulty variant: the title is taken from the last document
PageTitle_LastDoc(docs) ==
    IF docs # <<>> THEN Get(docs[Len(docs)].metadata, "title", DefaultTitle) ELSE DefaultTitle

\* docs[0].metadata.get("title", "Unknown Page") if docs else "Unknown Page"
PageTitle(docs) ==
    IF docs # <<>> THEN Get(docs[1].metadata, "title", DefaultTitle) ELSE DefaultTitle

\* one line of format_chat_history: "<RoleLabel>: <content>"
FormatLine(msg) ==
    IF msg.role = "Human" THEN <<"Human: ", msg.content>>
    ELSE IF msg.role = "AI" THEN <<"AI Assistant: ", msg.content>>
    ELSE <<"System: ", msg.content>>

\* the lines that "\n".join() joins; messages of no known role add no line
RECURSIVE FormatLines(_)
FormatLines(h) ==
    IF h = <<>> THEN <<>>
    ELSE (IF Head(h).role \in {"Human", "AI", "System"} THEN <<FormatLine(Head(h))>> ELSE <<>>)
         \o FormatLines(Tail(h))

format_chat_history(h) == IF h = <<>> THEN <<<<NoHistoryText>>>> ELSE FormatLines(h)

\* a faulty variant: the whole list is formatted, the query just appended included
AllButLast_Whole(h) == h

\* chat_history[:-1]
AllButLast(h) == IF h = <<>> THEN <<>> ELSE SubSeq(h, 1, Len(h) - 1)

\* a faulty variant: the first n are taken, `chat_history[:n]`
LastN_First(h, n) == IF Len(h) <= n THEN h ELSE SubSeq(h, 1, n)

\* chat_history[-n:]
LastN(h, n) == IF Len(h) <= n THEN h ELSE SubSeq(h, Len(h) - n + 1, Len(h))

\* a faulty variant: the first 20 messages are kept, `chat_history[:20]`
Truncated_KeepsFirst(h) == SubSeq(h, 1, HistoryCap)

\* a faulty variant: only whole exchanges are kept, the last 18 messages
Truncated_Keeps18(h) == <<h[1]>> \o LastN(h, KeepLast - 1)

\* a faulty variant: the last 20 messages are kept and the System message is lost
Truncated_DropsHead(h) == LastN(h, HistoryCap)

\* [chat_history[0]] + chat_history[-19:]
Truncated(h) == <<h[1]>> \o LastN(h, KeepLast)

\* len(chat_history) > 20
OverCap(h) == Len(h) > HistoryCap

-----------------------------------------------------------------------------
(* The heap of list objects *)

SessRefs(sd) == {sd[u].chat_history : u \in DOMAIN sd}
LocalRefs(rq) == {rq[r].chat_history : r \in Req} \ {NoList}

\* a list object not named in `keep`
Alloc(keep) == CHOOSE i \in ListId \ keep : \A j \in ListId \ keep : i <= j

\* list objects nothing refers to are gone
Collect(h, sd, rq) ==
    [i \in ListId |-> IF i \in SessRefs(sd) \cup LocalRefs(rq) THEN h[i] ELSE <<>>]

\* the history of a URL's session, as a sequence of messages
History(u) == heap[session_data[u].chat_history]

\* the session map as Python compares it: by value
Sessions ==
    [u \in DOMAIN session_data |->
        [vectorstore |-> session_data[u].vectorstore,
         chat_history |-> History(u),
         page_title |-> session_data[u].page_title]]

-----------------------------------------------------------------------------
(* Scheduling *)

Running(r) == pc[r] \notin {"idle", "done"}

\* a faulty variant: the handler gives up the event loop while the loader fetches the page
CanRun_AwaitsLoader(r) == \A o \in Req \ {r} : ~Running(o) \/ pc[o] = "load"

\* a faulty variant: the handler gives up the event loop while the model generates
CanRun_AwaitsModel(r) == \A o \in Req \ {r} : ~Running(o) \/ pc[o] = "generate"

\* a handler runs from its first line to its return without giving up the
\* event loop: no step of r while another handler is between its first line
\* and its return
CanRun(r) == \A o \in Req \ {r} : ~Running(o)

-----------------------------------------------------------------------------
Init ==
    /\ session_data = [u \in {} |-> 0]
    /\ heap = [i \in ListId |-> <<>>]
    /\ pc = [r \in Req |-> "idle"]
    /\ req = [r \in Req |-> Locals]
    /\ served = [u \in URL |-> 0]
    /\ nbuilt = [u \in URL |-> 0]
    /\ failedIngest = {}
    /\ nfail = [u \in URL |-> 0]
    /\ lastSys = [u \in URL |-> NoMessage]
    /\ resetRun = NoRun

\* a faulty variant: the whole map is assigned, `session_data = {url_key: ...}`
WithSession_Alone(sd, u, rec) == [v \in {u} |-> rec]

\* session_data with the record of u set to rec (added when u has none)
WithSession(sd, u, rec) ==
    [v \in DOMAIN sd \cup {u} |-> IF v = u THEN rec ELSE sd[v]]

\* the list objects that stay referenced when the session of u drops its list
\* and the locals are rq
Kept(u, rq) ==
    {session_data[v].chat_history : v \in DOMAIN session_data \ {u}} \cup LocalRefs(rq)

\* the handler returns `resp`: its locals are gone
Return(r, resp) ==
    [req EXCEPT ![r] = [Locals EXCEPT !.kind = req[r].kind, !.url = req[r].url,
                                      !.query = req[r].query, !.response = resp]]

\* a request is taken up once the responses of the finished ones are sent,
\* by the first invocation that is free
Delivered == \A o \in Req : pc[o] # "done"
FirstFree(r) == \A o \in Req : pc[o] = "idle" => r <= o

\* a faulty variant: every /query ingests the page, whether the URL has a session or not
BeginQuery_AlwaysLoads(r, u) ==
    /\ pc[r] = "idle"
    /\ CanRun(r)
    /\ Delivered
    /\ FirstFree(r)
    /\ served[u] < MaxRequests(u)
    /\ req' = [req EXCEPT ![r] = [Locals EXCEPT !.kind = "query", !.url = u,
                                                !.query = QueryText(served[u] + 1)]]
    /\ pc' = [pc EXCEPT ![r] = "load"]
    /\ resetRun' = NoRun
    /\ UNCHANGED <<session_data, heap, served, nbuilt, failedIngest, nfail, lastSys>>

\* chatBot.py:93-99  a /query for u arrives and the handler tests `url_key not in session_data`
BeginQuery(r, u) ==
    /\ pc[r] = "idle"
    /\ CanRun(r)
    /\ Delivered
    /\ FirstFree(r)
    /\ served[u] < MaxRequests(u)
    /\ req' = [req EXCEPT ![r] = [Locals EXCEPT !.kind = "query", !.url = u,
                                                !.query = QueryText(served[u] + 1)]]
    /\ pc' = [pc EXCEPT ![r] = IF u \notin DOMAIN session_data THEN "load" ELSE "get"]
    /\ resetRun' = NoRun
    /\ UNCHANGED <<session_data, heap, served, nbuilt, failedIngest, nfail, lastSys>>

\* a faulty variant: the session record is written before the ingestion and stays after it failed
IngestError_Partial(r, cause, msg) ==
    LET u == req[r].url
        sd == WithSession(session_data, u,
                          [vectorstore |-> NoStore,
                           chat_history |-> Alloc(Kept(u, req)),
                           page_title |-> DefaultTitle])
    IN  /\ req' = [Return(r, [error |-> msg]) EXCEPT ![r].cause = cause]
        /\ pc' = [pc EXCEPT ![r] = "done"]
        /\ failedIngest' = failedIngest \cup {u}
        /\ session_data' = sd
        /\ UNCHANGED <<heap, served, nbuilt, nfail, lastSys, resetRun>>

\* chatBot.py:105, 110-112, 119-121, 126-130  ingestion ends in `return {"error": ...}`;
\* `cause` keeps what made it end
IngestError(r, cause, msg) ==
    /\ req' = [Return(r, [error |-> msg]) EXCEPT ![r].cause = cause]
    /\ pc' = [pc EXCEPT ![r] = "done"]
    /\ failedIngest' = failedIngest \cup {req[r].url}
    /\ UNCHANGED <<session_data, heap, served, nbuilt, nfail, lastSys, resetRun>>

\* chatBot.py:102-112  loader.load(), then the two tests on what it returned
Load(r) ==
    /\ pc[r] = "load"
    /\ CanRun(r)
    /\ \/ \* loader.load() raises: caught at line 126
          IngestError(r, "loader raised", ErrNoContent)
       \/ \E docs \in DocLists(req[r].url) :
            IF docs = <<>>
            THEN IngestError(r, "no documents", ErrLoad)
            ELSE IF Strip(JoinContent(docs)) = <<>>
            THEN IngestError(r, "blank text", ErrNoContent)
            ELSE /\ req' = [req EXCEPT ![r].docs = docs]
                 /\ pc' = [pc EXCEPT ![r] = "split"]
                 /\ UNCHANGED <<session_data, heap, served, nbuilt, failedIngest,
                                nfail, lastSys, resetRun>>

\* chatBot.py:114-121  splitter.split_documents(docs), then `if not splits`
Split(r) ==
    /\ pc[r] = "split"
    /\ CanRun(r)
    /\ \/ \* the splitter raises: caught at line 126
          IngestError(r, "splitter raised", ErrNoContent)
       \/ \E n \in 0..2 :
            IF n = 0
            THEN IngestError(r, "no chunks", ErrNoChunks)
            ELSE /\ req' = [req EXCEPT ![r].splits = n]
                 /\ pc' = [pc EXCEPT ![r] = "embed"]
                 /\ UNCHANGED <<session_data, heap, served, nbuilt, failedIngest,
                                nfail, lastSys, resetRun>>

\* chatBot.py:124-130  Chroma.from_documents(splits, embeddings)
Embed(r) ==
    /\ pc[r] = "embed"
    /\ CanRun(r)
    /\ \/ \* embedding or index building raises: caught at line 126
          IngestError(r, "index builder raised", ErrNoContent)
       \/ /\ req' = [req EXCEPT ![r].vectorstore =
                        [url |-> req[r].url, index |-> nbuilt[req[r].url] + 1]]
          /\ nbuilt' = [nbuilt EXCEPT ![req[r].url] = @ + 1]
          /\ pc' = [pc EXCEPT ![r] = "create"]
          /\ UNCHANGED <<session_data, heap, served, failedIngest, nfail, lastSys, resetRun>>

\* chatBot.py:133-148  the session record is written and the System message appended
Create(r) ==
    LET u == req[r].url
        title == PageTitle(req[r].docs)
        id == Alloc(Kept(u, req))
        sd == WithSession(session_data, u,
                          [vectorstore |-> req[r].vectorstore,
                           chat_history |-> id,
                           page_title |-> title])
    IN  /\ pc[r] = "create"
        /\ CanRun(r)
        /\ session_data' = sd
        /\ heap' = Collect([heap EXCEPT ![id] = <<StartedMsg(title)>>], sd, req)
        /\ lastSys' = [lastSys EXCEPT ![u] = StartedMsg(title)]
        /\ failedIngest' = failedIngest \ {u}
        /\ pc' = [pc EXCEPT ![r] = "get"]
        /\ UNCHANGED <<req, served, nbuilt, nfail, resetRun>>

\* chatBot.py:151-166  the locals are bound and the Human message appended
AppendHuman(r) ==
    LET u == req[r].url
        id == session_data[u].chat_history
    IN  /\ pc[r] = "get"
        /\ CanRun(r)
        /\ req' = [req EXCEPT ![r].vectorstore = session_data[u].vectorstore,
                              ![r].chat_history = id]
        /\ heap' = [heap EXCEPT ![id] = Append(@, HumanMessage(req[r].query))]
        /\ served' = [served EXCEPT ![u] = @ + 1]
        /\ pc' = [pc EXCEPT ![r] = "retrieve"]
        /\ UNCHANGED <<session_data, nbuilt, failedIngest, nfail, lastSys, resetRun>>

Failures == nfail["u1"] + nfail["u2"]

\* a faulty variant: the Human message of the failed query is taken back
Raise_RollsBack(r, what) ==
    LET rq == Return(r, [exception |-> what])
    IN  /\ Failures < MaxFailures
        /\ req' = rq
        /\ heap' = Collect([heap EXCEPT ![req[r].chat_history] = AllButLast(@)],
                           session_data, rq)
        /\ nfail' = [nfail EXCEPT ![req[r].url] = @ + 1]
        /\ pc' = [pc EXCEPT ![r] = "done"]
        /\ UNCHANGED <<session_data, served, nbuilt, failedIngest, lastSys, resetRun>>

\* the handler is left by an exception nothing catches: its locals are gone
Raise(r, what) ==
    LET rq == Return(r, [exception |-> what])
    IN  /\ Failures < MaxFailures
        /\ req' = rq
        /\ heap' = Collect(heap, session_data, rq)
        /\ nfail' = [nfail EXCEPT ![req[r].url] = @ + 1]
        /\ pc' = [pc EXCEPT ![r] = "done"]
        /\ UNCHANGED <<session_data, served, nbuilt, failedIngest, lastSys, resetRun>>

\* chatBot.py:169-171  retriever.get_relevant_documents(req.query)
Retrieve(r) ==
    /\ pc[r] = "retrieve"
    /\ CanRun(r)
    /\ \/ Raise(r, "retriever")
       \/ /\ pc' = [pc EXCEPT ![r] = "generate"]
          /\ UNCHANGED <<session_data, heap, req, served, nbuilt, failedIngest,
                         nfail, lastSys, resetRun>>

\* chatBot.py:174-188  the transcript is formatted and the model invoked
Generate(r) ==
    /\ pc[r] = "generate"
    /\ CanRun(r)
    /\ \/ Raise(r, "llm")
       \/ /\ req' = [req EXCEPT
                ![r].formatted_history =
                    format_chat_history(AllButLast(heap[req[r].chat_history])),
                ![r].ai_response = AnswerText(req[r].query[2])]
          /\ pc' = [pc EXCEPT ![r] = "record"]
          /\ UNCHANGED <<session_data, heap, served, nbuilt, failedIngest, nfail,
                         lastSys, resetRun>>

\* chatBot.py:191-192  the AI message is appended
Record(r) ==
    /\ pc[r] = "record"
    /\ CanRun(r)
    /\ heap' = [heap EXCEPT ![req[r].chat_history] = Append(@, AIMessage(req[r].ai_response))]
    /\ pc' = [pc EXCEPT ![r] = "truncate"]
    /\ UNCHANGED <<session_data, req, served, nbuilt, failedIngest, nfail, lastSys, resetRun>>

\* chatBot.py:195-199  the history is cut when over the cap, and the answer returned
Truncate(r) ==
    LET u == req[r].url
        h == heap[req[r].chat_history]
        rq == Return(r, [answer |-> req[r].ai_response])
        id == Alloc(Kept(u, rq))
        sd == [session_data EXCEPT ![u].chat_history = id]
    IN  /\ pc[r] = "truncate"
        /\ CanRun(r)
        /\ IF OverCap(h)
           THEN /\ session_data' = sd
                /\ heap' = Collect([heap EXCEPT ![id] = Truncated(h)], sd, rq)
           ELSE /\ session_data' = session_data
                /\ heap' = Collect(heap, session_data, rq)
        /\ req' = rq
        /\ pc' = [pc EXCEPT ![r] = "done"]
        /\ UNCHANGED <<served, nbuilt, failedIngest, nfail, lastSys, resetRun>>

\* a faulty variant: the System message is appended to a history that was not cleared
Cleared_Appends(h, page_title) == Append(h, RestartedMsg(page_title))

\* a faulty variant: the history is cleared and no System message is appended
Cleared_Empty(h, page_title) == <<>>

\* a faulty variant: the history is cut down to the System message it began with
Cleared_KeepsHead(h, page_title) == <<h[1]>>

\* chatBot.py:213-219  chat_history = [] and the fresh System message appended
Cleared(h, page_title) == Append(<<>>, RestartedMsg(page_title))

\* the run of /reset requests for u, one longer
Longer(u, status) ==
    [url |-> u, status |-> status,
     n |-> IF resetRun.url = u /\ resetRun.n < 2 THEN resetRun.n + 1
           ELSE IF resetRun.url = u THEN resetRun.n ELSE 1]

\* a faulty variant: /reset deletes the session record, index included
ResetFound_DropsSession(r, u) ==
    LET sd == [v \in DOMAIN session_data \ {u} |-> session_data[v]]
    IN  /\ u \in DOMAIN session_data
        /\ session_data' = sd
        /\ heap' = Collect(heap, sd, req)
        /\ served' = [served EXCEPT ![u] = @ + 1]
        /\ resetRun' = Longer(u, "reset")
        /\ req' = [req EXCEPT ![r] =
                    [Locals EXCEPT
                        !.kind = "reset", !.url = u,
                        !.response = [status |-> "reset",
                                      message |-> <<"Chat history for ", u, " has been cleared">>]]]
        /\ UNCHANGED lastSys

\* chatBot.py:210-225  /reset for a URL that has a session
ResetFound(r, u) ==
    LET page_title == Get(session_data[u], "page_title", DefaultTitle)
        id == Alloc(Kept(u, req))
        sd == [session_data EXCEPT ![u].chat_history = id]
    IN  /\ u \in DOMAIN session_data
        /\ session_data' = sd
        /\ heap' = Collect([heap EXCEPT ![id] = Cleared(History(u), page_title)], sd, req)
        /\ lastSys' = [lastSys EXCEPT ![u] = RestartedMsg(page_title)]
        /\ served' = [served EXCEPT ![u] = @ + 1]
        /\ resetRun' = Longer(u, "reset")
        /\ req' = [req EXCEPT ![r] =
                    [Locals EXCEPT
                        !.kind = "reset", !.url = u,
                        !.response = [status |-> "reset",
                                      message |-> <<"Chat history for ", u, " has been cleared">>]]]

\* a faulty variant: /reset of an unknown URL leaves an empty session behind
ResetNotFound_Creates(r, u) ==
    LET id == Alloc(Kept(u, req))
        sd == WithSession(session_data, u,
                          [vectorstore |-> NoStore, chat_history |-> id,
                           page_title |-> DefaultTitle])
    IN  /\ u \notin DOMAIN session_data
        /\ resetRun' = Longer(u, "not_found")
        /\ req' = [req EXCEPT ![r] =
                    [Locals EXCEPT
                        !.kind = "reset", !.url = u,
                        !.response = [status |-> "not_found",
                                      message |-> <<"No chat history found for this URL">>]]]
        /\ session_data' = sd
        /\ heap' = Collect([heap EXCEPT ![id] = <<RestartedMsg(DefaultTitle)>>], sd, req)
        /\ UNCHANGED <<lastSys, served>>

\* chatBot.py:210, 226  /reset for a URL that has no session
ResetNotFound(r, u) ==
    /\ u \notin DOMAIN session_data
    /\ resetRun' = Longer(u, "not_found")
    /\ req' = [req EXCEPT ![r] =
                [Locals EXCEPT
                    !.kind = "reset", !.url = u,
                    !.response = [status |-> "not_found",
                                  message |-> <<"No chat history found for this URL">>]]]
    /\ UNCHANGED <<session_data, heap, lastSys, served>>

\* chatBot.py:208-226  the whole /reset handler
Reset(r, u) ==
    /\ pc[r] = "idle"
    /\ CanRun(r)
    /\ Delivered
    /\ FirstFree(r)
    /\ served[u] < MaxRequests(u)
    /\ pc' = [pc EXCEPT ![r] = "done"]
    /\ \/ ResetFound(r, u)
       \/ ResetNotFound(r, u)
    /\ UNCHANGED <<nbuilt, failedIngest, nfail>>

\* the response is sent and the invocation is over
Respond(r) ==
    /\ pc[r] = "done"
    /\ pc' = [pc EXCEPT ![r] = "idle"]
    /\ req' = [req EXCEPT ![r] = Locals]
    /\ UNCHANGED <<session_data, heap, served, nbuilt, failedIngest, nfail, lastSys, resetRun>>

Next ==
    \E r \in Req :
        \/ \E u \in URL : BeginQuery(r, u)
        \/ Load(r)
        \/ Split(r)
        \/ Embed(r)
        \/ Create(r)
        \/ AppendHuman(r)
        \/ Retrieve(r)
        \/ Generate(r)
        \/ Record(r)
        \/ Truncate(r)
        \/ \E u \in URL : Reset(r, u)
        \/ Respond(r)

Spec == Init /\ [][Next]_vars

-----------------------------------------------------------------------------
(* Vocabulary of the properties *)

HasSession(u) == u \in DOMAIN session_data

Ingesting(r) == pc[r] \in {"load", "split", "embed", "create"}
Answering(r) == pc[r] \in {"retrieve", "generate", "record", "truncate"}

\* no handler is between its first line and its return
BetweenRequests == \A r \in Req : ~Running(r)

Last(h) == h[Len(h)]

\* the steps of the handlers, as seen in a pair of states
CreateStep(r) == pc[r] = "create" /\ pc'[r] = "get"
IngestErrorStep(r) == pc[r] \in {"load", "split", "embed"} /\ pc'[r] = "done"
RaiseStep(r) == pc[r] \in {"retrieve", "generate"} /\ pc'[r] = "done"
AnswerStep(r) == pc[r] = "truncate" /\ pc'[r] = "done"
QueryStep(r) == pc[r] = "idle" /\ pc'[r] \in {"load", "get"}
ResetStep(r) == pc[r] = "idle" /\ pc'[r] = "done"

\* the session map and a history in the second state of a step
HasSessionAfter(u) == u \in DOMAIN session_data'
HistoryAfter(u) == heap'[session_data'[u].chat_history]

\* the sessions of the URLs other than u are what they were
OthersUnchanged(u) ==
    \A v \in DOMAIN session_data \ {u} :
        v \in DOMAIN session_data' /\ Sessions'[v] = Sessions[v]

-----------------------------------------------------------------------------
\* C1: a /query for a URL that has no session and whose ingestion succeeded
\* (documents, non-blank text, chunks, an index) adds exactly one session
\* record, that URL's, and at that moment its history is the one System
\* message "Started new conversation about: <title>", the title being the
\* first document's, or "Unknown Page" when it carries none; no session
\* record appears in any other way.
C1_FirstQueryCreatesSession ==
    [][/\ \A r \in Req :
            CreateStep(r) =>
                LET u == req[r].url
                    md == req[r].docs[1].metadata
                    title == IF "title" \in DOMAIN md THEN md.title ELSE "Unknown Page"
                IN  /\ req[r].kind = "query"
                    /\ Len(req[r].docs) >= 1
                    /\ Strip(JoinContent(req[r].docs)) # <<>>
                    /\ req[r].splits >= 1
                    /\ req[r].vectorstore # NoStore
                    /\ ~HasSession(u)
                    /\ DOMAIN session_data' = DOMAIN session_data \cup {u}
                    /\ OthersUnchanged(u)
                    /\ HistoryAfter(u) = <<[role |-> "System",
                                        content |-> <<StartedPrefix, title>>]>>
                    /\ session_data'[u].page_title = title
                    /\ session_data'[u].vectorstore = req[r].vectorstore
       /\ \A u \in URL :
            ~HasSession(u) /\ HasSessionAfter(u) =>
                \E r \in Req : CreateStep(r) /\ req[r].url = u
       /\ \A r \in Req :
            pc[r] = "embed" /\ pc'[r] \notin {"embed", "done"} => pc'[r] = "create"
      ]_vars

\* a session just created from two documents of which only the second has a title
C1_Witness ==
    \E r \in Req :
        /\ pc[r] = "get"
        /\ Len(req[r].docs) = 2
        /\ "title" \in DOMAIN req[r].docs[2].metadata
        /\ HasSession(req[r].url)
        /\ History(req[r].url) = <<StartedMsg("Unknown Page")>>

\* C2: when the ingestion of a URL without a session fails (no documents,
\* blank text, no chunks, or an exception of the loader, the splitter or the
\* index builder) the response holds an error field and nothing else, the
\* session map and the lists are what they were, the URL has no session, and
\* the next /query for the URL goes to the loader again.
C2_FailedIngestionLeavesNoSession ==
    [][/\ \A r \in Req :
            IngestErrorStep(r) =>
                /\ DOMAIN req'[r].response = {"error"}
                /\ session_data' = session_data
                /\ heap' = heap
                /\ ~HasSessionAfter(req[r].url)
       /\ \A r \in Req :
            Ingesting(r) /\ pc[r] # "create" /\ pc'[r] # pc[r] =>
                \/ IngestErrorStep(r)
                \/ pc'[r] \in {"split", "embed", "create"}
       /\ \A r \in Req :
            QueryStep(r) /\ ~HasSession(req'[r].url) => pc'[r] = "load"
      ]_vars

\* a query in the loader for a URL whose previous ingestion failed
C2_Witness ==
    \E r \in Req :
        /\ pc[r] = "load"
        /\ req[r].url \in failedIngest
        /\ ~HasSession(req[r].url)

\* C3: in a session none of whose queries raised, a /query that completes
\* leaves at most 20 messages, exactly 20 when the history had reached 19 or
\* more before the query, and element 0 is the System message written last
\* for the session (at creation, or by the latest /reset); the same holds
\* between requests.
C3_SuccessfulHistoryCapped ==
    /\ [](\A u \in DOMAIN session_data :
            BetweenRequests /\ nfail[u] = 0 =>
                /\ Len(History(u)) <= 20
                /\ History(u)[1] = lastSys[u])
    /\ [][\A r \in Req :
            AnswerStep(r) /\ nfail[req[r].url] = 0 =>
                LET u == req[r].url
                IN  /\ Len(HistoryAfter(u)) <= 20
                    /\ Len(History(u)) > 20 => Len(HistoryAfter(u)) = 20
                    /\ Len(History(u)) <= 20 => HistoryAfter(u) = History(u)
                    /\ HistoryAfter(u)[1] = lastSys[u]
                    /\ lastSys[u].role = "System"
         ]_vars

\* a query has completed on a full history whose head is the message of a reset
C3_Witness ==
    \E r \in Req :
        /\ pc[r] = "done"
        /\ "answer" \in DOMAIN req[r].response
        /\ nfail[req[r].url] = 0
        /\ Len(History(req[r].url)) = 20
        /\ History(req[r].url)[1] = RestartedMsg(session_data[req[r].url].page_title)
        /\ History(req[r].url)[2].role = "AI"

\* C4: the history of a session never holds more than 20 messages between
\* requests, nor more than 22 while a request is in progress, whatever the
\* requests, queries that raise in retrieval or generation included.
C4_HistoryBounded ==
    \A u \in DOMAIN session_data :
        Len(History(u)) <= IF BetweenRequests THEN 20 ELSE 22

\* C5: /reset for a URL that has a session makes its history the one System
\* message "Chat history cleared. Restarted conversation about: <title>",
\* keeps its vector index and its page title, touches no other session and
\* answers status "reset"; a /query for a URL that has a session skips the
\* ingestion and retrieves from the session's index, and no index is built
\* for a URL once it has a session.
C5_ResetKeepsIndex ==
    [][/\ \A r \in Req :
            ResetStep(r) /\ HasSession(req'[r].url) =>
                LET u == req'[r].url
                IN  /\ DOMAIN session_data' = DOMAIN session_data
                    /\ HistoryAfter(u) =
                          <<[role |-> "System",
                             content |-> <<RestartedPrefix, session_data[u].page_title>>]>>
                    /\ session_data'[u].vectorstore = session_data[u].vectorstore
                    /\ session_data'[u].page_title = session_data[u].page_title
                    /\ OthersUnchanged(u)
                    /\ req'[r].response.status = "reset"
       /\ \A r \in Req :
            QueryStep(r) /\ HasSession(req'[r].url) => pc'[r] = "get"
       /\ \A r \in Req :
            pc[r] = "get" /\ pc'[r] = "retrieve" =>
                req'[r].vectorstore = session_data[req[r].url].vectorstore
       /\ \A u \in URL : HasSession(u) => nbuilt'[u] = nbuilt[u]
      ]_vars

\* the first query after a reset is retrieving from the index built at creation
C5_Witness ==
    \E r \in Req :
        LET u == req[r].url
        IN  /\ pc[r] = "retrieve"
            /\ HasSession(u)
            /\ History(u) = <<RestartedMsg(session_data[u].page_title),
                              HumanMessage(req[r].query)>>
            /\ req[r].vectorstore = session_data[u].vectorstore
            /\ nbuilt[u] = 1

\* C6: /reset for a URL that has no session answers status "not_found" and
\* changes nothing: the URL still has no session and every session keeps its
\* history, index and title.
C6_ResetUnknownChangesNothing ==
    [][\A r \in Req :
            ResetStep(r) /\ ~HasSession(req'[r].url) =>
                /\ req'[r].response.status = "not_found"
                /\ ~HasSessionAfter(req'[r].url)
                /\ session_data' = session_data
                /\ heap' = heap
                /\ Sessions' = Sessions
      ]_vars

\* /reset of an unknown URL has answered while another URL has a conversation
C6_Witness ==
    \E r \in Req :
        /\ pc[r] = "done"
        /\ "status" \in DOMAIN req[r].response
        /\ req[r].response.status = "not_found"
        /\ ~HasSession(req[r].url)
        /\ \E v \in DOMAIN session_data : Len(History(v)) >= 3

\* C7: /reset is idempotent: a /reset leaves a session that exists with the
\* single restart message and an unknown URL unknown, and a /reset that
\* directly follows a /reset for the same URL leaves the whole session map
\* as it found it and answers the same status.
C7_ResetIdempotent ==
    [][\A r \in Req :
            ResetStep(r) =>
                LET u == req'[r].url
                IN  /\ HasSessionAfter(u) <=> HasSession(u)
                    /\ HasSession(u) =>
                          HistoryAfter(u) = <<RestartedMsg(session_data[u].page_title)>>
                    /\ resetRun.url = u =>
                          /\ Sessions' = Sessions
                          /\ req'[r].response.status = resetRun.status
      ]_vars

\* the second of two /reset in a row for a URL with a session has answered
C7_Witness ==
    \E r \in Req :
        /\ pc[r] = "done"
        /\ req[r].kind = "reset"
        /\ resetRun.url = req[r].url
        /\ resetRun.n = 2
        /\ resetRun.status = "reset"
        /\ History(req[r].url) = <<RestartedMsg(session_data[req[r].url].page_title)>>

\* C8: when retrieval or generation raises, the handler is left by the
\* exception at once; the session stays in the map, its history is what it
\* was before the failure, ending with the Human message of the failed query,
\* with no AI message added and nothing cut; the transcript of the next
\* /query for the URL ends with that unanswered Human message.
C8_FailedQueryLeavesHuman ==
    /\ [][\A r \in Req :
            RaiseStep(r) =>
                LET u == req[r].url
                IN  /\ "exception" \in DOMAIN req'[r].response
                    /\ HasSession(u) /\ HasSessionAfter(u)
                    /\ Sessions' = Sessions
                    /\ Last(HistoryAfter(u)) = [role |-> "Human", content |-> req[r].query]
         ]_vars
    /\ [](\A r \in Req :
            pc[r] = "record" =>
                LET h == heap[req[r].chat_history]
                    t == req[r].formatted_history
                IN  Len(h) >= 2 /\ h[Len(h) - 1].role = "Human" =>
                        Last(t) = <<"Human: ", h[Len(h) - 1].content>>)

\* a query is answered whose transcript ends with the Human message a failed query left
C8_Witness ==
    \E r \in Req :
        LET h == heap[req[r].chat_history]
        IN  /\ pc[r] = "record"
            /\ nfail[req[r].url] = 1
            /\ Len(h) >= 3
            /\ h[Len(h) - 1].role = "Human"
            /\ Last(req[r].formatted_history) = <<"Human: ", h[Len(h) - 1].content>>

\* C9 as stated: while a first /query for a URL is between its session test
\* and its session write, another /query for the same URL can pass the
\* session test.
C9_Original ==
    \A r1 \in Req :
        Ingesting(r1) /\ ~HasSession(req[r1].url) =>
            \E r2 \in Req \ {r1} : ENABLED BeginQuery(r2, req[r1].url)

\* C9, amended: two /query requests for a URL that has no session do not
\* interleave: while one is ingesting no other handler runs and the URL has
\* no session, so the index of a URL is built at most once and the session
\* record written at creation is never replaced by another's.
C9_NoDuplicateIngestion ==
    /\ \A r1, r2 \in Req : r1 # r2 /\ Ingesting(r1) => ~Running(r2)
    /\ \A r \in Req : Ingesting(r) => ~HasSession(req[r].url)
    /\ \A u \in URL : nbuilt[u] <= 1
    /\ \A u \in DOMAIN session_data :
            /\ nbuilt[u] = 1
            /\ session_data[u].vectorstore = [url |-> u, index |-> 1]

\* the second /query for a URL is retrieving from the index the first one built
C9_Witness ==
    \E r \in Req :
        LET u == req[r].url
        IN  /\ pc[r] = "retrieve"
            /\ req[r].query = QueryText(2)
            /\ nbuilt[u] = 1
            /\ req[r].vectorstore = [url |-> u, index |-> 1]
            /\ Len(History(u)) = 4
            /\ History(u)[1].content[1] = StartedPrefix

\* C10 as stated: while a /query is between the append of its Human message
\* and its return, a /reset or another /query for the same URL can run.
C10_Original ==
    \A r1 \in Req :
        Answering(r1) /\ served[req[r1].url] < MaxRequests(req[r1].url) =>
            \E r2 \in Req \ {r1} :
                ENABLED (Reset(r2, req[r1].url) \/ BeginQuery(r2, req[r1].url))

\* C10, amended: requests for one URL do not race on its history: while a
\* /query is between the append of its Human message and its return no other
\* handler runs, its local chat_history is the session's list, the messages
\* it appended are the last of the session's history, and the head of every
\* history is the System message written last (no /reset is undone).
C10_NoLostUpdate ==
    /\ \A r1, r2 \in Req : r1 # r2 /\ Answering(r1) => ~Running(r2)
    /\ \A r \in Req :
            Answering(r) =>
                LET u == req[r].url
                    h == History(u)
                IN  /\ HasSession(u)
                    /\ req[r].chat_history = session_data[u].chat_history
                    /\ pc[r] # "truncate" => Last(h) = HumanMessage(req[r].query)
                    /\ pc[r] = "truncate" =>
                          /\ h[Len(h) - 1] = HumanMessage(req[r].query)
                          /\ Last(h) = AIMessage(req[r].ai_response)
    /\ \A u \in DOMAIN session_data : History(u)[1] = lastSys[u]

\* a /query that follows a /reset has appended its two messages to the reset history
C10_Witness ==
    \E r \in Req :
        LET u == req[r].url
        IN  /\ pc[r] = "truncate"
            /\ req[r].chat_history = session_data[u].chat_history
            /\ History(u) = <<RestartedMsg(session_data[u].page_title),
                              HumanMessage(req[r].query),
                              AIMessage(req[r].ai_response)>>

-----------------------------------------------------------------------------
\* the URL a step of invocation r is for
StepUrl(r) == IF pc[r] = "idle" THEN req'[r].url ELSE req[r].url

\* C11: requests for different URLs are independent: every step of a /query
\* (answered, failed in ingestion or failed in retrieval or generation) and
\* every /reset for a URL leaves every other URL as it was: whether it has a
\* session, and that session's history, vector index and page title; what a
\* URL's session holds comes from that URL's requests alone.
C11_OtherUrlsUntouched ==
    [][\A r \in Req :
          pc'[r] # pc[r] =>
              /\ \A v \in URL \ {StepUrl(r)} : HasSession(v) <=> HasSessionAfter(v)
              /\ OthersUnchanged(StepUrl(r))
              /\ \A v \in URL \ {StepUrl(r)} :
                    /\ served'[v] = served[v]
                    /\ nbuilt'[v] = nbuilt[v]
                    /\ lastSys'[v] = lastSys[v]]_vars

\* both URLs have a session; u1 was queried to the cap and u2 once in between
C11_Witness ==
    /\ HasSession("u1") /\ HasSession("u2")
    /\ BetweenRequests
    /\ Len(History("u1")) = HistoryCap
    /\ History("u2") = <<StartedMsg(session_data["u2"].page_title),
                         HumanMessage(QueryText(1)), AIMessage(AnswerText(1))>>

-----------------------------------------------------------------------------
\* C12: each cause of a failed ingestion gives its fixed error string: no
\* documents, blank concatenated text and no chunks give three different
\* strings, an exception of the loader, the splitter or the index builder is
\* caught and gives the string of the blank text; the response then holds an
\* error field and nothing else (no answer), and no session was created.
C12_IngestionErrorStrings ==
    /\ Cardinality({ErrLoad, ErrNoContent, ErrNoChunks}) = 3
    /\ \A r \in Req :
          req[r].cause # "none" =>
              /\ pc[r] = "done"
              /\ DOMAIN req[r].response = {"error"}
              /\ req[r].cause = "no documents" =>
                    req[r].response.error = "Failed to load content from the provided URL"
              /\ req[r].cause = "blank text" =>
                    req[r].response.error = "The webpage appears to have no readable content. This may be due to authentication requirements or dynamic content loading."
              /\ req[r].cause = "no chunks" =>
                    req[r].response.error = "Unable to process the webpage content into readable chunks."
              /\ req[r].cause \in {"loader raised", "splitter raised", "index builder raised"} =>
                    req[r].response.error = "The webpage appears to have no readable content. This may be due to authentication requirements or dynamic content loading."
              /\ ~HasSession(req[r].url)

\* the splitter gave no chunks for a page that had text
C12_Witness ==
    \E r \in Req :
        /\ pc[r] = "done"
        /\ req[r].cause = "no chunks"
        /\ req[r].response = [error |-> ErrNoChunks]

-----------------------------------------------------------------------------
\* C13: in every reachable state every session's history is non-empty, its
\* first element is a System message, namely the one written last for the
\* session (the "Started ..." message of the creation until the first /reset,
\* the "... Restarted ..." message of the latest /reset after it), and no
\* other element of the history is a System message.
C13_HeadIsLatestSystemMessage ==
    \A u \in DOMAIN session_data :
        LET h == History(u)
            t == session_data[u].page_title
        IN  /\ h # <<>>
            /\ h[1].role = "System"
            /\ h[1] = lastSys[u]
            /\ h[1] \in {StartedMsg(t), RestartedMsg(t)}
            /\ \A i \in 2..Len(h) : h[i].role \in {"Human", "AI"}

\* a session between requests whose history was cut at the cap and then grew
\* by the Human message of a failed query
C13_Witness ==
    /\ BetweenRequests
    /\ HasSession("u1")
    /\ nfail["u1"] = 1
    /\ Len(History("u1")) = HistoryCap + 1
    /\ History("u1")[1] = StartedMsg(session_data["u1"].page_title)
    /\ History("u1")[2].role = "AI"

-----------------------------------------------------------------------------
\* C14: the truncation is the last step of an answered /query, after the AI
\* message was appended and not before the prompt is composed: a history of
\* more than 20 messages becomes its element 0 followed by its last 19
\* messages in their order, 20 messages in all, and a history of 20 or fewer
\* stays as it is; no other step of a /query shortens a history, so the
\* transcript of a query that began on N messages (N = 20 included) has all N.
C14_TruncationStep ==
    /\ [](\A r \in Req :
            /\ pc[r] = "record" =>
                  Len(req[r].formatted_history) = Len(heap[req[r].chat_history]) - 1
            /\ pc[r] = "truncate" =>
                  /\ Len(req[r].formatted_history) = Len(heap[req[r].chat_history]) - 2
                  /\ Last(heap[req[r].chat_history]).role = "AI")
    /\ [][\A r \in Req :
            /\ AnswerStep(r) =>
                  LET h == History(req[r].url)
                      n == Len(h)
                  IN  HistoryAfter(req[r].url) =
                          IF n > 20
                          THEN [i \in 1..20 |-> IF i = 1 THEN h[1] ELSE h[n - 20 + i]]
                          ELSE h
            /\ pc'[r] # pc[r] /\ pc[r] \notin {"idle", "truncate"} =>
                  \A u \in DOMAIN session_data :
                      /\ HasSessionAfter(u)
                      /\ Len(HistoryAfter(u)) >= Len(History(u))]_vars

\* a query that began on a truncated history of 20 messages has composed its
\* transcript: it has 20 lines, the System message and the 19 kept messages
C14_Witness ==
    \E r \in Req :
        /\ pc[r] = "record"
        /\ Len(req[r].formatted_history) = HistoryCap
        /\ req[r].formatted_history[2][1] = "AI Assistant: "
        /\ Len(heap[req[r].chat_history]) = HistoryCap + 1

-----------------------------------------------------------------------------
\* the label format_chat_history is to give a role
RoleLabel(role) ==
    IF role = "Human" THEN "Human: "
    ELSE IF role = "AI" THEN "AI Assistant: "
    ELSE "System: "

\* C15: the transcript a /query puts in its prompt is the session's history
\* as it stood before the request appended its Human message: one line for
\* every earlier message, in the order of the history, each with the label
\* of its role (Human, AI Assistant, System) and its content, and no line for
\* the query of the request itself.
C15_TranscriptIsEarlierHistory ==
    \A r \in Req :
        pc[r] = "record" =>
            LET h == History(req[r].url)
                t == req[r].formatted_history
            IN  /\ Last(h) = HumanMessage(req[r].query)
                /\ Len(t) = Len(h) - 1
                /\ \A i \in 1..Len(t) : t[i] = <<RoleLabel(h[i].role), h[i].content>>
                /\ \A i \in 1..Len(t) : t[i][2] # req[r].query

\* the transcript of a third query: the System message and two exchanges
C15_Witness ==
    \E r \in Req :
        /\ pc[r] = "record"
        /\ req[r].query = QueryText(3)
        /\ req[r].formatted_history =
              <<<<"System: ", <<StartedPrefix, DefaultTitle>>>>,
                <<"Human: ", QueryText(1)>>, <<"AI Assistant: ", AnswerText(1)>>,
                <<"Human: ", QueryText(2)>>, <<"AI Assistant: ", AnswerText(2)>>>>

-----------------------------------------------------------------------------
\* C16: whenever a /query for a URL returns {answer: a} to the query q, the
\* last two messages of that URL's history at the return are Human(q) and
\* then AI(a), whether the request truncated the history or not.
C16_AnswerEndsHistory ==
    [][\A r \in Req :
          pc'[r] = "done" /\ pc[r] # "done" /\ "answer" \in DOMAIN req'[r].response =>
              LET u == req[r].url
                  q == req[r].query
                  a == req'[r].response.answer
              IN  /\ req'[r].kind = "query" /\ req'[r].query = q
                  /\ HasSessionAfter(u)
                  /\ Len(HistoryAfter(u)) >= 3
                  /\ HistoryAfter(u)[Len(HistoryAfter(u)) - 1] = HumanMessage(q)
                  /\ HistoryAfter(u)[Len(HistoryAfter(u))] = AIMessage(a)
                  /\ a = AnswerText(q[2])]_vars

\* an answered query whose history was cut in this request; one of the
\* messages is the Human message of a failed query
C16_Witness ==
    \E r \in Req :
        /\ pc[r] = "done"
        /\ "answer" \in DOMAIN req[r].response
        /\ nfail[req[r].url] = 1
        /\ Len(History(req[r].url)) = HistoryCap
        /\ History(req[r].url)[HistoryCap - 1] = HumanMessage(req[r].query)
        /\ History(req[r].url)[HistoryCap] = AIMessage(req[r].response.answer)
        /\ History(req[r].url)[2].role # "Human"

-----------------------------------------------------------------------------
\* C17: a session is permanent: once a URL has a session it has one in every
\* later state (no operation removes it), the session's vector index handle
\* and page title stay what the creation made them (only the history
\* changes), and no later request for the URL runs the ingestion, so the
\* index of a URL is built at most once.
C17_SessionPermanent ==
    /\ [](/\ \A r \in Req : Ingesting(r) => ~HasSession(req[r].url)
          /\ \A u \in URL :
                /\ nbuilt[u] <= 1
                /\ HasSession(u) =>
                      session_data[u].vectorstore = [url |-> u, index |-> 1])
    /\ [][\A u \in URL :
            HasSession(u) =>
                /\ HasSessionAfter(u)
                /\ session_data'[u].vectorstore = session_data[u].vectorstore
                /\ session_data'[u].page_title = session_data[u].page_title
                /\ DOMAIN session_data'[u] = {"vectorstore", "chat_history", "page_title"}
                /\ nbuilt'[u] = nbuilt[u]]_vars

\* a session that went through answered queries, a failed one and a /reset
\* still has the index and the title of its creation
C17_Witness ==
    /\ BetweenRequests
    /\ HasSession("u1")
    /\ served["u1"] >= 5
    /\ nfail["u1"] = 1
    /\ lastSys["u1"] = RestartedMsg(TitleOf("u1"))
    /\ session_data["u1"].vectorstore = [url |-> "u1", index |-> 1]
    /\ session_data["u1"].page_title = TitleOf("u1")
    /\ Len(History("u1")) >= 3

-----------------------------------------------------------------------------
\* message i of h is an AI message that stands right after the Human message it answers
Paired(h, i) ==
    /\ i > 1
    /\ h[i - 1].role = "Human"
    /\ h[i - 1].content = QueryText(h[i].content[2])

\* C18, as claimed: in a session where no retrieval or generation has failed,
\* between requests every AI message of the history stands right after the
\* Human message it answered, also after a truncation.
C18_Original ==
    \A u \in DOMAIN session_data :
        BetweenRequests /\ nfail[u] = 0 =>
            \A i \in 1..Len(History(u)) :
                History(u)[i].role = "AI" => Paired(History(u), i)

\* C18, amended: in a session where no retrieval or generation has failed,
\* between requests every AI message from element 2 on stands right after
\* the Human message it answered; element 1 is a Human message until the
\* first truncation, and after a truncation (the history then has 20
\* messages) it is an AI message whose Human message was dropped.
C18_ExchangesWholeButFirst ==
    \A u \in DOMAIN session_data :
        BetweenRequests /\ nfail[u] = 0 =>
            LET h == History(u)
            IN  /\ \A i \in 3..Len(h) : h[i].role = "AI" => Paired(h, i)
                /\ \A i \in 3..Len(h) : h[i].role = "Human" => h[i - 1].role = "AI"
                /\ Len(h) < 20 /\ Len(h) >= 2 => h[2].role = "Human"
                /\ Len(h) >= 20 =>
                      /\ Len(h) = 20
                      /\ h[2].role = "AI"
                      /\ \A i \in 1..20 : h[i] # HumanMessage(QueryText(h[2].content[2]))

\* after the second truncation: the history begins with the System message
\* and the answer to the second query, whose Human message is gone
C18_Witness ==
    /\ BetweenRequests
    /\ HasSession("u1")
    /\ nfail["u1"] = 0
    /\ Len(History("u1")) = HistoryCap
    /\ History("u1")[2] = AIMessage(AnswerText(2))
    /\ History("u1")[3] = HumanMessage(QueryText(3))
    /\ Last(History("u1")) = AIMessage(AnswerText(11))

-----------------------------------------------------------------------------
\* C19: a /query never renders the placeholder "No previous conversation
\* history.": the list chat_service passes to format_chat_history, the
\* history without the Human message just appended, always holds the System
\* message at least, so the transcript begins with a "System: " line; the
\* placeholder is what format_chat_history gives for the empty list only.
C19_PlaceholderNeverRendered ==
    /\ format_chat_history(<<>>) = <<<<"No previous conversation history.">>>>
    /\ \A r \in Req :
          /\ pc[r] \in {"retrieve", "generate"} =>
                /\ AllButLast(heap[req[r].chat_history]) # <<>>
                /\ heap[req[r].chat_history][1].role = "System"
                /\ format_chat_history(AllButLast(heap[req[r].chat_history]))
                      # format_chat_history(<<>>)
          /\ pc[r] \in {"record", "truncate"} =>
                /\ req[r].formatted_history # <<>>
                /\ req[r].formatted_history[1][1] = "System: "
                /\ \A i \in 1..Len(req[r].formatted_history) :
                      req[r].formatted_history[i] # <<"No previous conversation history.">>

\* the shortest transcript: the first query after a /reset has formatted the
\* one System message of the cleared history
C19_Witness ==
    \E r \in Req :
        /\ pc[r] = "record"
        /\ req[r].formatted_history =
              <<<<"System: ", <<RestartedPrefix, session_data[req[r].url].page_title>>>>>>

====
